---- MODULE Spec2Model ----
(***************************************************************************)
(* Model of the Guardian corpus builder:                                   *)
(*   data_collection.py  - main / collect_section / format_article         *)
(*   sensing.py          - main / parse_article                            *)
(* Text is a sequence of one-character strings, so that str.replace,       *)
(* str.strip, str.split and str.join are computed character by character.  *)
(***************************************************************************)
EXTENDS Integers, Sequences, FiniteSets, TLC

(* ------------------------------------------------------------------ *)
(* Python string and dict primitives used by the two files             *)
(* ------------------------------------------------------------------ *)

NL == "\n"

\* characters str.strip() (no argument) removes
Whitespace == {" ", NL, "\t"}

\* dict.get(key, default)
Get(d, k, default) == IF k \in DOMAIN d THEN d[k] ELSE default

\* d[k] = v  (an existing key is replaced: the last assignment wins)
DictSet(d, k, v) == [x \in (DOMAIN d) \cup {k} |-> IF x = k THEN v ELSE d[x]]

\* s.replace(a, b) for one-character a and b
Replace(s, a, b) == [i \in 1..Len(s) |-> IF s[i] = a THEN b ELSE s[i]]

RECURSIVE LStrip(_)
LStrip(s) ==
    IF s = <<>> THEN <<>>
    ELSE IF Head(s) \in Whitespace THEN LStrip(Tail(s)) ELSE s

RECURSIVE RStrip(_)
RStrip(s) ==
    IF s = <<>> THEN <<>>
    ELSE IF s[Len(s)] \in Whitespace THEN RStrip(SubSeq(s, 1, Len(s) - 1)) ELSE s

\* s.strip()
Strip(s) == RStrip(LStrip(s))

\* index of the first occurrence of character c in s, 0 when there is none
RECURSIVE IndexFrom(_, _, _)
IndexFrom(s, c, i) ==
    IF i > Len(s) THEN 0
    ELSE IF s[i] = c THEN i ELSE IndexFrom(s, c, i + 1)

IndexOf(s, c) == IndexFrom(s, c, 1)

\* c in s
Contains(s, c) == IndexOf(s, c) # 0

\* s.split(c): every piece between separators, empty pieces kept
RECURSIVE Split(_, _)
Split(s, c) ==
    LET i == IndexOf(s, c)
    IN  IF i = 0 THEN <<s>>
        ELSE <<SubSeq(s, 1, i - 1)>> \o Split(SubSeq(s, i + 1, Len(s)), c)

\* s.split(c, 1) for s that contains c: [before the first c, everything after it]
SplitOnce(s, c) ==
    LET i == IndexOf(s, c)
    IN  <<SubSeq(s, 1, i - 1), SubSeq(s, i + 1, Len(s))>>

\* sep.join(values)
RECURSIVE Join(_, _)
Join(values, sep) ==
    IF values = <<>> THEN <<>>
    ELSE IF Len(values) = 1 THEN values[1]
    ELSE values[1] \o sep \o Join(Tail(values), sep)

\* str(n) for a natural number n
RECURSIVE Str(_)
Str(n) ==
    LET d == <<"0", "1", "2", "3", "4", "5", "6", "7", "8", "9">>
    IN  IF n < 10 THEN <<d[n + 1]>> ELSE Str(n \div 10) \o <<d[(n % 10) + 1]>>

(* ------------------------------------------------------------------ *)
(* Record codec                                                        *)
(* ------------------------------------------------------------------ *)

\* the literal prefixes of the 14 header lines (data_collection.py 72-87)
K_ID == <<"I", "D">>
K_SECTION_ID == <<"S", "E", "C", "T", "I", "O", "N", "_", "I", "D">>
K_SECTION_NAME == <<"S", "E", "C", "T", "I", "O", "N", "_", "N", "A", "M", "E">>
K_WEB_TITLE == <<"W", "E", "B", "_", "T", "I", "T", "L", "E">>
K_WEB_URL == <<"W", "E", "B", "_", "U", "R", "L">>
K_HEADLINE == <<"H", "E", "A", "D", "L", "I", "N", "E">>
K_TRAIL_TEXT == <<"T", "R", "A", "I", "L", "_", "T", "E", "X", "T">>
K_BYLINE == <<"B", "Y", "L", "I", "N", "E">>
K_BODY_TEXT == <<"B", "O", "D", "Y", "_", "T", "E", "X", "T">>
K_TAGS_IDS == <<"T", "A", "G", "S", "_", "I", "D", "S">>
K_TAGS_TITLES == <<"T", "A", "G", "S", "_", "T", "I", "T", "L", "E", "S">>
K_PRIMARY_TAG_ID == <<"P", "R", "I", "M", "A", "R", "Y", "_", "T", "A", "G", "_", "I", "D">>
K_PRIMARY_TAG_TITLE ==
    <<"P", "R", "I", "M", "A", "R", "Y", "_", "T", "A", "G", "_", "T", "I", "T", "L", "E">>
K_PRIMARY_TAG_TYPE ==
    <<"P", "R", "I", "M", "A", "R", "Y", "_", "T", "A", "G", "_", "T", "Y", "P", "E">>

\* the key parse_article sets before it reads the file (sensing.py 13)
K_label == <<"l", "a", "b", "e", "l">>

\* f"{key}: {value}"
Line(key, value) == key \o <<":", " ">> \o value

\* variant: the separator is a comma and a space
join_csv_spaced(values) == IF values # <<>> THEN Join(values, <<",", " ">>) ELSE <<>>

\* join_csv(values): ",".join(values) if values else ""
join_csv(values) == IF values # <<>> THEN Join(values, <<",">>) ELSE <<>>

\* what an f-string prints for None
NoneText == <<"N", "o", "n", "e">>

\* variant: article.get('id') and tag.get(...) are called without a default
format_article_no_default(article) ==
    LET fields == Get(article, "fields", <<>>)
        tags == Get(article, "tags", <<>>)
        body_text == Get(fields, "bodyText", <<>>)
        tag_ids == [i \in 1..Len(tags) |-> Get(tags[i], "id", NoneText)]
        tag_titles == [i \in 1..Len(tags) |-> Get(tags[i], "title", NoneText)]
        primary_id == IF tags # <<>> THEN Get(tags[1], "id", NoneText) ELSE <<>>
        primary_title == IF tags # <<>> THEN Get(tags[1], "title", NoneText) ELSE <<>>
        primary_type == IF tags # <<>> THEN Get(tags[1], "type", NoneText) ELSE <<>>
        lines == <<
            Line(K_ID, Get(article, "id", NoneText)),
            Line(K_SECTION_ID, Get(article, "sectionId", <<>>)),
            Line(K_SECTION_NAME, Get(article, "sectionName", <<>>)),
            Line(K_WEB_TITLE, Get(article, "webTitle", <<>>)),
            Line(K_WEB_URL, Get(article, "webUrl", <<>>)),
            Line(K_HEADLINE, Get(fields, "headline", <<>>)),
            Line(K_TRAIL_TEXT, Get(fields, "trailText", <<>>)),
            Line(K_BYLINE, Get(fields, "byline", <<>>)),
            Line(K_BODY_TEXT, body_text),
            Line(K_TAGS_IDS, join_csv(tag_ids)),
            Line(K_TAGS_TITLES, join_csv(tag_titles)),
            Line(K_PRIMARY_TAG_ID, primary_id),
            Line(K_PRIMARY_TAG_TITLE, primary_title),
            Line(K_PRIMARY_TAG_TYPE, primary_type) >>
    IN  Join(lines, <<NL>>)

\* format_article(article): the 14 lines joined with "\n"
format_article(article) ==
    LET fields == Get(article, "fields", <<>>)
        tags == Get(article, "tags", <<>>)
        body_text == Get(fields, "bodyText", <<>>)
        tag_ids == [i \in 1..Len(tags) |-> Get(tags[i], "id", <<>>)]
        tag_titles == [i \in 1..Len(tags) |-> Get(tags[i], "title", <<>>)]
        primary_id == IF tags # <<>> THEN Get(tags[1], "id", <<>>) ELSE <<>>
        primary_title == IF tags # <<>> THEN Get(tags[1], "title", <<>>) ELSE <<>>
        primary_type == IF tags # <<>> THEN Get(tags[1], "type", <<>>) ELSE <<>>
        lines == <<
            Line(K_ID, Get(article, "id", <<>>)),
            Line(K_SECTION_ID, Get(article, "sectionId", <<>>)),
            Line(K_SECTION_NAME, Get(article, "sectionName", <<>>)),
            Line(K_WEB_TITLE, Get(article, "webTitle", <<>>)),
            Line(K_WEB_URL, Get(article, "webUrl", <<>>)),
            Line(K_HEADLINE, Get(fields, "headline", <<>>)),
            Line(K_TRAIL_TEXT, Get(fields, "trailText", <<>>)),
            Line(K_BYLINE, Get(fields, "byline", <<>>)),
            Line(K_BODY_TEXT, body_text),
            Line(K_TAGS_IDS, join_csv(tag_ids)),
            Line(K_TAGS_TITLES, join_csv(tag_titles)),
            Line(K_PRIMARY_TAG_ID, primary_id),
            Line(K_PRIMARY_TAG_TITLE, primary_title),
            Line(K_PRIMARY_TAG_TYPE, primary_type) >>
    IN  Join(lines, <<NL>>)

\* the for loop of parse_article over lines[i..]: a line holding ':' sets
\* article_data[key.strip()] = value.strip(); other lines are ignored
RECURSIVE ParseLines(_, _, _)
ParseLines(lines, i, article_data) ==
    IF i > Len(lines) THEN article_data
    ELSE IF Contains(lines[i], ":")
         THEN LET kv == SplitOnce(lines[i], ":")
              IN  ParseLines(lines, i + 1,
                             DictSet(article_data, Strip(kv[1]), Strip(kv[2])))
         ELSE ParseLines(lines, i + 1, article_data)

\* parse_article(file_path) for a readable file: parent_name is
\* file_path.parent.name and content is what read_text returns
parse_article(parent_name, content) ==
    LET article_data == DictSet(<<>>, K_label, parent_name)
        lines == Split(Strip(content), NL)
    IN  ParseLines(lines, 1, article_data)

(* ------------------------------------------------------------------ *)
(* Bounds of the model and the inputs drawn in Init                    *)
(* ------------------------------------------------------------------ *)

\* ARTICLES_PER_SECTION ranges over 0..MaxQuota (1000 in the source)
MaxQuota == 2
\* PAGE_SIZE ranges over 1..MaxPageSize (50 in the source)
MaxPageSize == 3
\* number of times the collection entry point is started
MaxRuns == 2
\* the event log of one collect_section call keeps its first MaxLog events
MaxLog == 3 * MaxQuota + 2

\* SECTIONS, in insertion order: (target_name, gurdian_id)
SECTIONS == <<
    << <<"n", "e", "w", "s">>, <<"n", "e", "w", "s">> >>,
    << <<"s", "p", "o", "r", "t">>, <<"s", "p", "o", "r", "t">> >>,
    << <<"o", "p", "i", "n", "i", "o", "n">>,
       <<"c", "o", "m", "m", "e", "n", "t", "i", "s", "f", "r", "e", "e">> >>,
    << <<"c", "u", "l", "t", "u", "r", "e">>, <<"c", "u", "l", "t", "u", "r", "e">> >> >>

\* article objects the content source serves
ArtA == [id |-> <<"a", "/", "b">>, sectionName |-> <<"N">>,
         fields |-> [bodyText |-> <<"x">>],
         tags |-> << [id |-> <<"t">>, title |-> <<"T">>, type |-> <<"k">>] >>]
ArtB == [id |-> <<"a", "_", "b">>, sectionName |-> <<"N">>]
ArtC == [id |-> <<"c">>, fields |-> [headline |-> <<"h">>]]
ArtD == [webTitle |-> <<"w">>]
Articles == {ArtA, ArtB, ArtC, ArtD}

\* an earlier version of ArtA, as a previous run may have stored it
ArtAOld == [id |-> <<"a", "/", "b">>, webTitle |-> <<"o">>]

\* the listings of a section: the articles in newest-first order, each once
Listings ==
    UNION {{l \in [1..n -> Articles] : \A i, j \in 1..n : l[i] = l[j] => i = j}
           : n \in 0..Cardinality(Articles)}

Min(a, b) == IF a <= b THEN a ELSE b

\* the results of page p of a listing cut into pages of size ps
PageOf(l, ps, p) == SubSeq(l, (p - 1) * ps + 1, Min(p * ps, Len(l)))

DotTxt == <<".", "t", "x", "t">>

\* out_dir / f"{art_id}.txt", as (directory name, file name)
PathOf(target_name, art_id) == <<target_name, art_id \o DotTxt>>

EmptyStorage == [p \in {} |-> <<>>]

\* files an earlier run left in one directory
OldFiles(target_name) == {
    [path |-> PathOf(target_name, <<"a", "_", "b">>), content |-> format_article(ArtAOld)],
    [path |-> PathOf(target_name, <<"c">>), content |-> format_article(ArtC)] }

\* the storage holding a set of files
StorageOf(fs) ==
    [p \in {f.path : f \in fs} |-> (CHOOSE f \in fs : f.path = p).content]

\* initial storages: the same earlier files in every category directory
InitialStorages ==
    {StorageOf({f \in UNION {OldFiles(SECTIONS[s][1]) : s \in 1..Len(SECTIONS)} :
                    f.path[2] \in names})
     : names \in SUBSET {<<"a", "_", "b">> \o DotTxt, <<"c">> \o DotTxt}}

(* ------------------------------------------------------------------ *)
(* State                                                               *)
(* ------------------------------------------------------------------ *)

VARIABLES
    api_key,        \* whether GUARDIAN_API_KEY is set in the environment
    listing,        \* the content source: the articles of a section, newest first
    page_size,      \* PAGE_SIZE
    quota,          \* ARTICLES_PER_SECTION
    storage,        \* data/: (directory, file name) -> file content
    dirs,           \* the category directories that exist under data/
    pc,             \* where the collection process is
    run,            \* how many times the entry point has been started
    sec,            \* position of main's for loop in SECTIONS
    count,          \* collect_section: count
    page,           \* collect_section: page
    results,        \* collect_section: results of the last request
    log,            \* events of the current collect_section call, in order
    entry_storage,  \* storage when the current collect_section call began
    returns,        \* per section: how many collect_section calls have returned
    first_files,    \* per section: the files of its directory when its first call returned
    reported,       \* the count printed by the last completed call, -1 before any
    given,          \* codec check: the article object and the category it is stored under
    walk,           \* sensing.main: the files rglob has still to yield
    rows,           \* sensing.main: what it has printed, in order
    failed          \* sensing.main: the files parse_article reported as unreadable

vars == <<api_key, listing, page_size, quota, storage, dirs, pc, run, sec, count,
          page, results, log, entry_storage, returns, first_files, reported, given, walk, rows, failed>>

env == <<api_key, listing, page_size, quota>>

sensing == <<given, walk, rows, failed>>

collecting == <<storage, dirs, run, sec, count, page, results, log, entry_storage, returns,
                first_files, reported>>

\* append an event to the log of the call; the log keeps its first MaxLog events
Logged(l, e) == IF Len(l) < MaxLog THEN Append(l, e) ELSE l

Init ==
    /\ api_key \in BOOLEAN
    /\ listing \in Listings
    /\ page_size \in 1..MaxPageSize
    /\ quota \in 0..MaxQuota
    /\ storage \in InitialStorages
    /\ dirs = {p[1] : p \in DOMAIN storage}
    /\ pc = "start"
    /\ run = 1
    /\ sec = 1
    /\ count = 0
    /\ page = 1
    /\ results = <<>>
    /\ log = <<>>
    /\ entry_storage = storage
    /\ returns = [s \in 1..Len(SECTIONS) |-> 0]
    /\ first_files = [s \in 1..Len(SECTIONS) |-> EmptyStorage]
    /\ reported = -1
    /\ given = [article |-> ArtA, label |-> SECTIONS[1][1]]
    /\ walk = {}
    /\ rows = <<>>
    /\ failed = {}

(* ------------------------------------------------------------------ *)
(* data_collection.py                                                  *)
(* ------------------------------------------------------------------ *)

\* get_api_key raises RuntimeError when the key is missing: main ends there
GetApiKeyMissing ==
    /\ pc = "start"
    /\ ~api_key
    /\ pc' = "aborted"
    /\ UNCHANGED <<sensing, env, storage, dirs, run, sec, count, page, results, log,
                   entry_storage, returns, first_files, reported>>

\* main: api_key = get_api_key(); the for loop over SECTIONS.items() begins
MainStart ==
    /\ pc = "start"
    /\ api_key
    /\ pc' = "main"
    /\ sec' = 1
    /\ UNCHANGED <<sensing, env, storage, dirs, run, count, page, results, log,
                   entry_storage, returns, first_files, reported>>

\* main calls collect_section for the next section: mkdir, count = 0, page = 1
CollectSection ==
    /\ pc = "main"
    /\ sec <= Len(SECTIONS)
    /\ dirs' = dirs \cup {SECTIONS[sec][1]}
    /\ count' = 0
    /\ page' = 1
    /\ results' = <<>>
    /\ log' = <<>>
    /\ entry_storage' = storage
    /\ pc' = "while"
    /\ UNCHANGED <<sensing, env, storage, run, sec, returns, first_files, reported>>

\* main's for loop is exhausted: the process ends
MainReturn ==
    /\ pc = "main"
    /\ sec > Len(SECTIONS)
    /\ pc' = "exit"
    /\ UNCHANGED <<sensing, env, storage, dirs, run, sec, count, page, results, log,
                   entry_storage, returns, first_files, reported>>

\* the files of one directory
DirFiles(st, d) == [p \in {q \in DOMAIN st : q[1] = d} |-> st[p]]

\* the loop of collect_section is left: print the count, return to main
Return(l) ==
    /\ reported' = count'
    /\ returns' = [returns EXCEPT ![sec] = @ + 1]
    /\ first_files' = IF returns[sec] = 0
                      THEN [first_files EXCEPT ![sec] = DirFiles(storage', SECTIONS[sec][1])]
                      ELSE first_files
    /\ sec' = sec + 1
    /\ log' = l
    /\ pc' = "main"

\* variant: the loop test admits count = quota
WhileCondInclusive(cnt, q) == cnt <= q

\* while count < ARTICLES_PER_SECTION
WhileCond(cnt, q) == cnt < q

\* while count < ARTICLES_PER_SECTION is false on entry to an iteration
WhileExit ==
    /\ pc = "while"
    /\ ~WhileCond(count, quota)
    /\ UNCHANGED <<sensing, env, storage, dirs, run, count, page, results, entry_storage>>
    /\ Return(log)

\* one request of the current page to the content source, which answers
Request ==
    /\ pc = "while"
    /\ WhileCond(count, quota)
    /\ results' = PageOf(listing, page_size, page)
    /\ log' = Logged(log, <<"request", page>>)
    /\ pc' = "fetched"
    /\ UNCHANGED <<sensing, env, storage, dirs, run, sec, count, page, entry_storage,
                   returns, first_files, reported>>

\* one request of the current page, which raises a transport/protocol error:
\* neither collect_section nor main catches it
RequestFails ==
    /\ pc = "while"
    /\ WhileCond(count, quota)
    /\ log' = Logged(log, <<"request", page>>)
    /\ pc' = "crashed"
    /\ UNCHANGED <<sensing, env, storage, dirs, run, sec, count, page, results,
                   entry_storage, returns, first_files, reported>>

\* variant: an empty page is passed over and the next page is tried
ProcessEmptyNextPage ==
    /\ pc = "fetched"
    /\ results = <<>>
    /\ page' = page + 1
    /\ pc' = "while"
    /\ UNCHANGED <<sensing, env, storage, dirs, run, sec, count, results, log,
                   entry_storage, returns, first_files, reported>>

\* if not results: break
ProcessEmpty ==
    /\ pc = "fetched"
    /\ results = <<>>
    /\ UNCHANGED <<sensing, env, storage, dirs, run, count, page, results, entry_storage>>
    /\ Return(log)

\* for article in results: if count >= ARTICLES_PER_SECTION: break
\* the value `article` is bound to when the loop is left
RECURSIVE ForArticle(_, _, _, _)
ForArticle(res, i, cnt, q) ==
    IF i > Len(res) THEN res[Len(res)]
    ELSE IF cnt >= q THEN res[i]
    ELSE ForArticle(res, i + 1, cnt, q)

\* art_id = article.get("id", "").replace("/", "_") or f"{target_name}_{page}_{count}"
ArtId(article, target_name, pg, cnt) ==
    LET a == Replace(Get(article, "id", <<>>), "/", "_")
    IN  IF a # <<>> THEN a
        ELSE target_name \o <<"_">> \o Str(pg) \o <<"_">> \o Str(cnt)

\* out_path of the iteration
OutPath ==
    LET article == ForArticle(results, 1, count, quota)
    IN  PathOf(SECTIONS[sec][1], ArtId(article, SECTIONS[sec][1], page, count))

\* variant: the existence check is lost
ExistsNever(path) == FALSE

\* out_path.exists()
Exists(path) == path \in DOMAIN storage

\* variant: a skipped page is followed by the next page
ProcessSkipNextPage ==
    /\ pc = "fetched"
    /\ results # <<>>
    /\ Exists(OutPath)
    /\ page' = page + 1
    /\ log' = Logged(log, <<"sleep", page>>)
    /\ pc' = "while"
    /\ UNCHANGED <<sensing, env, storage, dirs, run, sec, count, results,
                   entry_storage, returns, first_files, reported>>

\* if out_path.exists(): continue
ProcessSkip ==
    /\ pc = "fetched"
    /\ results # <<>>
    /\ Exists(OutPath)
    /\ pc' = "while"
    /\ UNCHANGED <<sensing, env, storage, dirs, run, sec, count, page, results, log,
                   entry_storage, returns, first_files, reported>>

\* out_path.write_text(format_article(article)): the file is created or replaced
WriteText(path, content) ==
    [p \in (DOMAIN storage) \cup {path} |-> IF p = path THEN content ELSE storage[p]]

\* variant: the sleep comes before the test that the quota is reached
ProcessWriteLastSleeps ==
    /\ pc = "fetched"
    /\ results # <<>>
    /\ ~Exists(OutPath)
    /\ storage' = WriteText(OutPath, format_article(ForArticle(results, 1, count, quota)))
    /\ count' = count + 1
    /\ count' >= quota
    /\ Return(Logged(Logged(log, <<"write", page>>), <<"sleep", page>>))
    /\ UNCHANGED <<sensing, env, dirs, run, page, results, entry_storage>>

\* write, count += 1, and the quota is reached: break
ProcessWriteLast ==
    /\ pc = "fetched"
    /\ results # <<>>
    /\ ~Exists(OutPath)
    /\ storage' = WriteText(OutPath, format_article(ForArticle(results, 1, count, quota)))
    /\ count' = count + 1
    /\ count' >= quota
    /\ Return(Logged(log, <<"write", page>>))
    /\ UNCHANGED <<sensing, env, dirs, run, page, results, entry_storage>>

\* write, count += 1, page += 1, time.sleep(SLEEP_BETWEEN_CALLS)
ProcessWriteNext ==
    /\ pc = "fetched"
    /\ results # <<>>
    /\ ~Exists(OutPath)
    /\ storage' = WriteText(OutPath, format_article(ForArticle(results, 1, count, quota)))
    /\ count' = count + 1
    /\ ~(count' >= quota)
    /\ page' = page + 1
    /\ log' = Logged(Logged(log, <<"write", page>>), <<"sleep", page>>)
    /\ pc' = "while"
    /\ UNCHANGED <<sensing, env, dirs, run, sec, results, entry_storage, returns, first_files, reported>>

\* the entry point is started again after it has run to its end
Restart ==
    /\ pc = "exit"
    /\ run < MaxRuns
    /\ run' = run + 1
    /\ pc' = "start"
    /\ UNCHANGED <<sensing, env, storage, dirs, sec, count, page, results, log,
                   entry_storage, returns, first_files, reported>>

Next ==
    \/ GetApiKeyMissing
    \/ MainStart
    \/ CollectSection
    \/ MainReturn
    \/ WhileExit
    \/ Request
    \/ RequestFails
    \/ ProcessEmpty
    \/ ProcessSkip
    \/ ProcessWriteLast
    \/ ProcessWriteNext
    \/ Restart

Spec == Init /\ [][Next]_vars

(* ------------------------------------------------------------------ *)
(* Codec: one article is stored by the collector's write, then          *)
(* sensing.py walks data/ and parses every file                         *)
(* ------------------------------------------------------------------ *)

\* number of tags an article carries at most
MaxTags == 2

TagT == [id |-> <<"t">>, title |-> <<"T">>, type |-> <<"k">>]
TagU == [id |-> <<"u">>, title |-> <<"U">>]
TagV == [title |-> <<"V">>, type |-> <<"s">>]
TagObjects == {TagT, TagU, TagV}

TagLists == UNION {[1..n -> TagObjects] : n \in 0..MaxTags}

\* the values a key carries when the article has it
TopValues == [id |-> <<"a", "/", "b">>, sectionId |-> <<"s">>, sectionName |-> <<"S", "n">>,
              webTitle |-> <<"w", ":", "v">>, webUrl |-> <<"h", ":", "/", "/", "g">>]
FieldValues == [headline |-> <<"h">>, trailText |-> <<"t", " ", "r">>, byline |-> <<"b">>]
BodyTexts == {<<"x">>, <<"x", NL, "l", "a", "b", "e", "l", ":", " ", "z">>}

Restrict(f, keys) == [k \in keys |-> f[k]]

\* the top-level keys present: none, one, or all of them
TopKeySets == {ks \in SUBSET (DOMAIN TopValues) : Cardinality(ks) \in {0, 1, 5}}
FieldKeySets == {ks \in SUBSET (DOMAIN FieldValues) : Cardinality(ks) \in {0, 1, 3}}

\* the `fields` mappings: each key present or absent
FieldMaps ==
    {Restrict(FieldValues, ks) : ks \in FieldKeySets} \cup
    {[k \in ks \cup {"bodyText"} |-> IF k = "bodyText" THEN b ELSE FieldValues[k]]
        : ks \in FieldKeySets, b \in BodyTexts}

\* object a with key k set to v
With(a, k, v) == [x \in (DOMAIN a) \cup {k} |-> IF x = k THEN v ELSE a[x]]

\* article objects: optional keys present or absent, `fields` and `tags` too
CodecArticles ==
    LET base == {Restrict(TopValues, ks) : ks \in TopKeySets}
        withFields == {With(a, "fields", f) : a \in base, f \in FieldMaps}
        full == With(TopValues, "fields",
                     With(FieldValues, "bodyText",
                          <<"x", NL, "l", "a", "b", "e", "l", ":", " ", "z">>))
    IN  base \cup withFields \cup
            {With(a, "tags", t) : a \in base \cup {full}, t \in TagLists}

\* the category directories the article may be stored under
Labels == {SECTIONS[1][1], SECTIONS[3][1]}

\* a file of another category that an earlier run stored
OtherFile == [path |-> PathOf(SECTIONS[2][1], <<"c">>), content |-> format_article(ArtC)]

\* the path collect_section gives the article on page 1 with count 0
GivenPath == PathOf(given.label, ArtId(given.article, given.label, 1, 0))

CodecInit ==
    /\ api_key = TRUE
    /\ listing = <<>>
    /\ page_size = 1
    /\ quota = 1
    /\ storage = StorageOf({OtherFile})
    /\ dirs = {SECTIONS[2][1]}
    /\ pc = "encode"
    /\ run = 1
    /\ sec = 1
    /\ count = 0
    /\ page = 1
    /\ results = <<>>
    /\ log = <<>>
    /\ entry_storage = storage
    /\ returns = [s \in 1..Len(SECTIONS) |-> 0]
    /\ first_files = [s \in 1..Len(SECTIONS) |-> EmptyStorage]
    /\ reported = -1
    /\ given \in [article : CodecArticles, label : Labels]
    /\ walk = {}
    /\ rows = <<>>
    /\ failed = {}

\* the write of collect_section for the given article: mkdir, then
\* out_path.write_text(format_article(article)); afterwards sensing.main starts
\* its walk of data/
Encode ==
    /\ pc = "encode"
    /\ ~Exists(GivenPath)
    /\ dirs' = dirs \cup {given.label}
    /\ storage' = WriteText(GivenPath, format_article(given.article))
    /\ walk' = DOMAIN storage'
    /\ pc' = "walk"
    /\ UNCHANGED <<env, run, sec, count, page, results, log, entry_storage, returns,
                   first_files, reported, given, rows, failed>>

\* sensing.main: rglob yields a file, parse_article reads and parses it, the
\* mapping is printed
SenseFile ==
    /\ pc = "walk"
    /\ \E file_path \in walk :
        /\ walk' = walk \ {file_path}
        /\ rows' = Append(rows, [path |-> file_path, ok |-> TRUE,
                                 data |-> parse_article(file_path[1], storage[file_path])])
    /\ UNCHANGED <<env, collecting, pc, given, failed>>

\* sensing.main: rglob yields a file, read_text raises, parse_article reports
\* the error and returns None, which main prints
SenseFileUnreadable ==
    /\ pc = "walk"
    /\ \E file_path \in walk :
        /\ walk' = walk \ {file_path}
        /\ failed' = failed \cup {file_path}
        /\ rows' = Append(rows, [path |-> file_path, ok |-> FALSE, data |-> <<>>])
    /\ UNCHANGED <<env, collecting, pc, given>>

\* sensing.main: the walk is over
SenseDone ==
    /\ pc = "walk"
    /\ walk = {}
    /\ pc' = "sensed"
    /\ UNCHANGED <<env, collecting, given, walk, rows, failed>>

CodecNext ==
    \/ Encode
    \/ SenseFile
    \/ SenseFileUnreadable
    \/ SenseDone

CodecSpec == CodecInit /\ [][CodecNext]_vars

\* the inputs of the termination check: pages of one article
LiveInit == Init /\ page_size = 1 /\ Len(listing) <= 2

\* the process is sequential and keeps executing: a step that can be taken is taken
FairSpec == LiveInit /\ [][Next]_vars /\ WF_vars(Next)

(* ------------------------------------------------------------------ *)
(* Claims                                                              *)
(* ------------------------------------------------------------------ *)

InCall == pc \in {"while", "fetched"}

\* the pages requested in the current call, in order
RECURSIVE Requested(_)
Requested(l) ==
    IF l = <<>> THEN <<>>
    ELSE IF Head(l)[1] = "request" THEN <<Head(l)[2]>> \o Requested(Tail(l))
    ELSE Requested(Tail(l))

\* C1: every collect_section call that has begun eventually finishes: it
\* returns to main (quota reached or empty page) or dies with the source's
\* error; it never keeps requesting pages forever.
C1_CollectionTerminates == (pc = "while") ~> (pc \in {"main", "crashed"})

\* C2: once the first collect_section call of a category has returned, a later
\* call for the same category (same quota, same source) creates no file and
\* changes no file: the directory keeps the files the first call left.
C2_SecondRunChangesNothing ==
    \A s \in 1..Len(SECTIONS) :
        returns[s] >= 1 => DirFiles(storage, SECTIONS[s][1]) = first_files[s]

\* a second call for "news" has requested page 1 and skipped the article the
\* first call stored under its fallback name
C2_Witness ==
    /\ run = 2 /\ sec = 1 /\ pc = "while" /\ returns[1] = 1
    /\ Requested(log) # <<>>
    /\ PathOf(SECTIONS[1][1], SECTIONS[1][1] \o <<"_", "1", "_", "0">>) \in DOMAIN storage

\* page 1 of the listing is full and its articles carry pairwise distinct ids
FirstPageFullDistinct ==
    /\ Len(listing) >= page_size
    /\ \A i \in 1..page_size : "id" \in DOMAIN listing[i]
    /\ \A i, j \in 1..page_size : listing[i].id = listing[j].id => i = j

\* C3: with quota N >= 1, page size P > N, empty storage and a full first page
\* of distinct ids, the call writes N files and requests page 1 only.
C3_QuotaBelowPageSize ==
    (/\ pc = "main" /\ sec = 2 /\ run = 1
     /\ quota >= 1 /\ page_size > quota
     /\ entry_storage = EmptyStorage
     /\ FirstPageFullDistinct)
    => /\ Requested(log) = <<1>>
       /\ Cardinality(DOMAIN storage) = quota

\* C4: an empty page ends the call at once: the count is below the quota, no
\* file is written, nothing more is requested or logged, the count is reported.
C4_EmptyPageEndsCall ==
    [][(pc = "fetched" /\ results = <<>>)
        => (/\ pc' = "main"
            /\ count < quota
            /\ storage' = storage
            /\ log' = log
            /\ reported' = count)]_vars

\* a call ended on the empty page 2 after writing one article of page 1
C4_Witness ==
    /\ pc = "main" /\ sec > 1
    /\ Requested(log) = <<1, 2>>
    /\ log[Len(log)] = <<"request", 2>>
    /\ reported = 1 /\ quota = 2

\* C5: with quota 0 no request is made to the content source and no article
\* file is written, whatever the source and the storage hold.
C5_ZeroQuota ==
    quota = 0 =>
        /\ log = <<>>
        /\ pc \notin {"fetched", "crashed"}
        /\ storage = entry_storage

\* every section was collected with quota 0 over a storage that holds files
C5_Witness ==
    /\ quota = 0 /\ pc = "exit" /\ listing # <<>> /\ storage # EmptyStorage
    /\ \A s \in 1..Len(SECTIONS) : returns[s] = 1

\* C6: count is the number of files the call has created, it never exceeds the
\* quota, and the count reported when the call returns is that number.
C6_CountIsNewFiles ==
    /\ count = Cardinality((DOMAIN storage) \ (DOMAIN entry_storage))
    /\ count <= quota
    /\ (pc = "main" /\ sec > 1) => reported = count

\* a call returned after creating quota = 2 files next to older ones
C6_Witness ==
    /\ pc = "main" /\ sec > 1 /\ quota >= 2 /\ reported = quota
    /\ entry_storage # EmptyStorage

\* C7: no step writes to a path that exists: every file keeps its content, and
\* a step that changes the storage adds exactly one path.
C7_NoOverwrite ==
    [][/\ \A p \in DOMAIN storage : p \in DOMAIN storage' /\ storage'[p] = storage[p]
       /\ storage' # storage
            => Cardinality(DOMAIN storage') = Cardinality(DOMAIN storage) + 1]_vars

\* a call has written a file into a directory that already held files from an
\* earlier run
C7_Witness ==
    /\ InCall /\ count >= 1
    /\ \E p \in DOMAIN entry_storage : p[1] = SECTIONS[sec][1]

\* ids (or titles, types) of a tag list, an absent key read as the empty string
TagValues(tags, k) == [i \in 1..Len(tags) |-> IF k \in DOMAIN tags[i] THEN tags[i][k] ELSE <<>>]

\* the values separated by single commas, built from the right
RECURSIVE CommaSeparated(_)
CommaSeparated(vs) ==
    IF Len(vs) = 0 THEN <<>>
    ELSE IF Len(vs) = 1 THEN vs[1]
    ELSE CommaSeparated(SubSeq(vs, 1, Len(vs) - 1)) \o <<",">> \o vs[Len(vs)]

GivenTags == IF "tags" \in DOMAIN given.article THEN given.article.tags ELSE <<>>
GivenFields == IF "fields" \in DOMAIN given.article THEN given.article.fields ELSE <<>>

\* the value the given article carries for each of the 14 keys
Encoded ==
    LET top(k) == IF k \in DOMAIN given.article THEN given.article[k] ELSE <<>>
        fld(k) == IF k \in DOMAIN GivenFields THEN GivenFields[k] ELSE <<>>
        first(k) == IF GivenTags = <<>> THEN <<>> ELSE TagValues(GivenTags, k)[1]
    IN  << <<K_ID, top("id")>>, <<K_SECTION_ID, top("sectionId")>>,
           <<K_SECTION_NAME, top("sectionName")>>, <<K_WEB_TITLE, top("webTitle")>>,
           <<K_WEB_URL, top("webUrl")>>, <<K_HEADLINE, fld("headline")>>,
           <<K_TRAIL_TEXT, fld("trailText")>>, <<K_BYLINE, fld("byline")>>,
           <<K_BODY_TEXT, fld("bodyText")>>,
           <<K_TAGS_IDS, CommaSeparated(TagValues(GivenTags, "id"))>>,
           <<K_TAGS_TITLES, CommaSeparated(TagValues(GivenTags, "title"))>>,
           <<K_PRIMARY_TAG_ID, first("id")>>, <<K_PRIMARY_TAG_TITLE, first("title")>>,
           <<K_PRIMARY_TAG_TYPE, first("type")>> >>

\* the rows sensing.main printed for the given article's file
GivenRows == {i \in 1..Len(rows) : rows[i].ok /\ rows[i].path = GivenPath}

\* C8: parsing the stored text of an article gives each of the 14 keys the
\* value that was encoded for it, and gives `label` the directory name.
C8_RoundTrip ==
    \A i \in GivenRows :
        /\ \A n \in 1..Len(Encoded) :
              /\ Encoded[n][1] \in DOMAIN rows[i].data
              /\ rows[i].data[Encoded[n][1]] = Encoded[n][2]
        /\ rows[i].data[K_label] = given.label

\* C9: the `label` of every row read from storage is the name of the file's
\* parent directory.
C9_LabelIsParentDirectory ==
    \A i \in 1..Len(rows) : rows[i].ok => rows[i].data[K_label] = rows[i].path[1]

\* the last n characters of s
Suffix(s, n) == SubSeq(s, Len(s) - n + 1, Len(s))

\* the five tag lines the claim describes, each after a line break
TagLinesExpected ==
    LET e == Encoded
        line(n) == <<NL>> \o e[n][1] \o <<":", " ">> \o e[n][2]
    IN  line(10) \o line(11) \o line(12) \o line(13) \o line(14)

HeaderLine(lines, n) == IF n <= 9 THEN lines[n] ELSE lines[Len(lines) - 14 + n]

\* the text after "KEY: " on a line that begins with key
EntryValue(line, key) == SubSeq(line, Len(key) + 3, Len(line))

\* C11: an article with optional keys absent (top-level keys, `fields` or its
\* keys, `tags` or keys of a tag) is encoded and stored, and every entry that
\* derives from an absent key is the empty string.
C11_MissingFieldsTolerated ==
    (pc # "encode") =>
        LET top == <<"id", "sectionId", "sectionName", "webTitle", "webUrl">>
            fld == <<"headline", "trailText", "byline", "bodyText">>
            prim == <<"id", "title", "type">>
            keys == <<K_ID, K_SECTION_ID, K_SECTION_NAME, K_WEB_TITLE, K_WEB_URL, K_HEADLINE,
                      K_TRAIL_TEXT, K_BYLINE, K_BODY_TEXT, K_TAGS_IDS, K_TAGS_TITLES,
                      K_PRIMARY_TAG_ID, K_PRIMARY_TAG_TITLE, K_PRIMARY_TAG_TYPE>>
            lines == Split(storage[GivenPath], NL)
            EmptyEntry(n) == HeaderLine(lines, n) = keys[n] \o <<":", " ">>
            ids == Split(EntryValue(HeaderLine(lines, 10), keys[10]), ",")
            titles == Split(EntryValue(HeaderLine(lines, 11), keys[11]), ",")
        IN  /\ GivenPath \in DOMAIN storage
            /\ Len(lines) >= 14
            /\ \A n \in 1..5 : top[n] \notin DOMAIN given.article => EmptyEntry(n)
            /\ \A n \in 1..4 : fld[n] \notin DOMAIN GivenFields => EmptyEntry(5 + n)
            /\ GivenTags = <<>> => \A n \in 10..14 : EmptyEntry(n)
            /\ \A n \in 1..3 :
                  (GivenTags # <<>> /\ prim[n] \notin DOMAIN GivenTags[1]) => EmptyEntry(11 + n)
            /\ \A t \in 1..Len(GivenTags) :
                  /\ "id" \notin DOMAIN GivenTags[t] => ids[t] = <<>>
                  /\ "title" \notin DOMAIN GivenTags[t] => titles[t] = <<>>

\* an article that has only `tags`, whose one tag has no id, was stored
C11_Witness ==
    /\ pc = "walk"
    /\ DOMAIN given.article = {"tags"}
    /\ given.article.tags = <<TagV>>
    /\ GivenPath \in DOMAIN storage

\* C12: a file that cannot be read is reported, nothing is emitted for it, and
\* when the walk is over every readable file has been decoded and emitted.
C12_UnreadableFileSkipped ==
    /\ \A i \in 1..Len(rows) : rows[i].path \notin failed
    /\ \A i \in 1..Len(rows) : ~rows[i].ok => rows[i].path \in failed
    /\ (pc = "sensed") =>
            \A f \in (DOMAIN storage) \ failed :
                \E i \in 1..Len(rows) : rows[i].path = f /\ rows[i].ok

\* the categories main's for loop has not reached yet
RemainingSections == (sec + 1)..Len(SECTIONS)

\* C13: a source failure ends only the call it occurs in: the entry point is
\* never ended by it while categories remain to be collected.
C13_FailureIsolated == (pc = "crashed") => RemainingSections = {}

\* C14: when a fetched page has been processed and the quota is not reached,
\* every article of that page that carries an id is in storage under its
\* sanitized id.
C14_EveryArticleProcessed ==
    (pc = "while" /\ results # <<>> /\ count < quota) =>
        \A i \in 1..Len(results) :
            "id" \in DOMAIN results[i] =>
                PathOf(SECTIONS[sec][1], Replace(results[i].id, "/", "_")) \in DOMAIN storage

\* C15: between any two requests of one call there is a sleep, also when the
\* article of the earlier page was skipped as already stored.
C15_SleepBetweenRequests ==
    \A i, j \in 1..Len(log) :
        (i < j /\ log[i][1] = "request" /\ log[j][1] = "request")
            => \E k \in (i + 1)..(j - 1) : log[k][1] = "sleep"

\* C16: once count has reached the quota no sleep is performed and no page is
\* requested; every sleep is followed by a request, or the request is the very
\* next step of the call.
C16_NoWastedWait ==
    /\ \A i \in 1..Len(log) :
          log[i][1] = "sleep" =>
              \/ i < Len(log) /\ log[i + 1][1] = "request"
              \/ i = Len(log) /\ pc = "while" /\ count < quota
    /\ (count >= quota) => pc # "fetched"
    /\ (count >= quota /\ log # <<>>) => log[Len(log)][1] # "sleep"

\* a call slept once, after its first write, and returned right after the
\* second write, which reached the quota
C16_Witness ==
    /\ pc = "main" /\ quota = 2 /\ reported = 2
    /\ log = << <<"request", 1>>, <<"write", 1>>, <<"sleep", 1>>,
                <<"request", 2>>, <<"write", 2>> >>

\* C17: the pages requested in one call are 1, 2, 3, ... in this order, each
\* requested once.
C17_PagesInOrderOnce ==
    LET req == Requested(log)
    IN  \A i \in 1..Len(req) : req[i] = i

\* the elements of a sequence
Range(f) == {f[i] : i \in DOMAIN f}

\* the record text has a line that parse_article reads as the key `label`
HasLabelLine(text) ==
    \E line \in {l \in Range(Split(Strip(text), NL)) : Contains(l, ":")} :
        Strip(SplitOnce(line, ":")[1]) = K_label

\* C18: the label of the row of a stored article is the directory it was
\* stored under, also when a line of the record text has the key `label`.
C18_LabelNotReplaceable ==
    \A i \in GivenRows :
        /\ K_label \in DOMAIN rows[i].data
        /\ HasLabelLine(storage[GivenPath]) => rows[i].data[K_label] = given.label

\* C19: the stored text of an article is exactly 14 lines whose keys are ID,
\* SECTION_ID, ..., PRIMARY_TAG_TYPE in this order, also when a value holds a
\* line break.
C19_FourteenLines ==
    (pc # "encode") =>
        LET lines == Split(storage[GivenPath], NL)
        IN  /\ Len(lines) = 14
            /\ \A n \in 1..14 :
                  /\ Len(lines[n]) >= Len(Encoded[n][1]) + 2
                  /\ SubSeq(lines[n], 1, Len(Encoded[n][1]) + 2) = Encoded[n][1] \o <<":", " ">>

\* the text begins with the header line ID of the given id
BeginsWithId(text, id) ==
    LET first == Line(K_ID, id) \o <<NL>>
    IN  Len(text) >= Len(first) /\ SubSeq(text, 1, Len(first)) = first

\* C20: an article with a non-empty id is skipped as already present only when
\* the file found under its name is the record of an article with the same id:
\* distinct ids never share a file name.
C20_FileNameOneToOne ==
    (pc = "fetched" /\ results # <<>>) =>
        LET article == ForArticle(results, 1, count, quota)
        IN  ("id" \in DOMAIN article /\ article.id # <<>> /\ OutPath \in DOMAIN storage)
                => BeginsWithId(storage[OutPath], article.id)

====
